---------------------------- MODULE Spec2Model ----------------------------
(***************************************************************************)
(* The expression workspace of the lambda playground                       *)
(* (reactfront/src/App.js): the React state of App, its event handlers,    *)
(* the two effects (WASM initialisation with the load of the saved         *)
(* expressions, and the persistence of the saved expressions), and the     *)
(* localStorage record "savedExpressions".                                 *)
(*                                                                         *)
(* Texts are sequences of one-character strings.  A JavaScript object is   *)
(* the sequence of its own enumerable properties in the order Object.keys, *)
(* Object.entries, the spread operator and JSON.stringify enumerate them:  *)
(* array-index keys first, in ascending numeric order, then the other      *)
(* string keys in the order of their creation.                             *)
(***************************************************************************)
EXTENDS Integers, Sequences, FiniteSets, TLC

VARIABLES
    expression,          \* useState('(λx.x) y')
    error,               \* useState(null)
    loading,             \* useState(true)
    savedExpressions,    \* useState({})
    newExpressionName,   \* useState('')
    newExpressionValue,  \* useState('')
    history,             \* useState([])
    wasm,                \* the promise returned by init(): pending, ready, failed
    storage,             \* localStorage item 'savedExpressions'
    lastOp               \* the handler that ran last, with its inputs

vars == << expression, error, loading, savedExpressions, newExpressionName,
           newExpressionValue, history, wasm, storage, lastOp >>

-----------------------------------------------------------------------------
(* Bounds *)

\* The reduce step is not taken once the history holds this many steps.
MaxHistory == 1

\* The same, in the sessions that follow reduce steps one after the other.
MaxSteps == 2

-----------------------------------------------------------------------------
(* Characters and texts *)

\* \w of a RegExp without the u flag: [A-Za-z0-9_] (the letters the model uses).
WordChars == {"a", "b", "c", "x", "y", "0", "1", "2", "_"}

Digits == <<"0", "1", "2", "3", "4", "5", "6", "7", "8", "9">>

\* White space and line terminators, as String.prototype.trim strips them.
WhiteSpace == {" ", "\t", "\n"}

LineTerminators == {"\n"}

IsWordChar(ch) == ch \in WordChars

IsDigit(ch) == \E d \in 1..Len(Digits) : Digits[d] = ch

DigitValue(ch) == (CHOOSE d \in 1..Len(Digits) : Digits[d] = ch) - 1

\* String.prototype.trim
RECURSIVE TrimStart(_)
TrimStart(s) ==
    IF s # << >> /\ Head(s) \in WhiteSpace THEN TrimStart(Tail(s)) ELSE s

RECURSIVE TrimEnd(_)
TrimEnd(s) ==
    IF s # << >> /\ s[Len(s)] \in WhiteSpace
    THEN TrimEnd(SubSeq(s, 1, Len(s) - 1))
    ELSE s

\* trimStart in the place of trim
TrimStartOnly(s) == TrimStart(s)

Trim(s) == TrimEnd(TrimStart(s))

-----------------------------------------------------------------------------
(* Ordinary JavaScript objects with string keys *)

\* A canonical numeric string below 2^32 - 1 is an array index.  The keys of
\* the model have fewer than ten digits, all of which are below that limit.
RECURSIVE NumericValue(_)
NumericValue(k) ==
    IF k = << >> THEN 0
    ELSE 10 * NumericValue(SubSeq(k, 1, Len(k) - 1)) + DigitValue(k[Len(k)])

IsArrayIndex(k) ==
    /\ k # << >>
    /\ Len(k) <= 9
    /\ \A i \in 1..Len(k) : IsDigit(k[i])
    /\ (Len(k) = 1 \/ k[1] # "0")

Property(k, v) == [name |-> k, value |-> v]

HasOwnProperty(obj, k) == \E i \in 1..Len(obj) : obj[i].name = k

ObjectKeys(obj) == [i \in 1..Len(obj) |-> obj[i].name]

\* Where OrdinaryOwnPropertyKeys lists a new array-index key: before the
\* first key that is a larger index or is no index at all.
IndexPosition(obj, k) ==
    LET later == { i \in 1..Len(obj) :
                     \/ ~IsArrayIndex(obj[i].name)
                     \/ NumericValue(obj[i].name) > NumericValue(k) }
    IN  IF later = {} THEN Len(obj) + 1
        ELSE CHOOSE i \in later : \A j \in later : i <= j

\* obj[k] = v on an ordinary object (CreateDataProperty): an existing key
\* keeps its place, a new array index is listed among the indices, any other
\* new key is listed last.
DefineProperty(obj, k, v) ==
    IF HasOwnProperty(obj, k)
    THEN [i \in 1..Len(obj) |->
             IF obj[i].name = k THEN Property(k, v) ELSE obj[i]]
    ELSE IF IsArrayIndex(k)
    THEN LET p == IndexPosition(obj, k)
         IN  SubSeq(obj, 1, p - 1) \o << Property(k, v) >>
                 \o SubSeq(obj, p, Len(obj))
    ELSE Append(obj, Property(k, v))

\* delete obj[k]
DeleteProperty(obj, k) == SelectSeq(obj, LAMBDA e : e.name # k)

\* { ...obj }: the own properties are defined one by one on a fresh object.
RECURSIVE CopyDataProperties(_, _)
CopyDataProperties(target, source) ==
    IF source = << >> THEN target
    ELSE CopyDataProperties(
             DefineProperty(target, Head(source).name, Head(source).value),
             Tail(source))

ObjectSpread(obj) == CopyDataProperties(<< >>, obj)

-----------------------------------------------------------------------------
(* JSON text and the localStorage item *)

\* JSON.stringify(obj): the members "key":"value" in the order of Object.keys.
JSONStringify(obj) ==
    [kind |-> "object",
     members |-> [i \in 1..Len(obj) |-> << obj[i].name, obj[i].value >>]]

\* JSON.parse of an object text: the members are defined in text order.
RECURSIVE ParseMembers(_, _)
ParseMembers(obj, members) ==
    IF members = << >> THEN obj
    ELSE ParseMembers(DefineProperty(obj, Head(members)[1], Head(members)[2]),
                      Tail(members))

\* The item is absent (getItem gives null), the empty string, a text that
\* is no JSON ("{"), or the text of an object.
NoItem == [kind |-> "null", members |-> << >>]

EmptyItem == [kind |-> "empty", members |-> << >>]

MalformedItem == [kind |-> "malformed", members |-> << >>]

\* if (saved): null and '' are falsy.
IsTruthy(item) == item.kind \notin {"null", "empty"}

JSONParses(item) == item.kind = "object"

JSONParse(item) == ParseMembers(<< >>, item.members)

-----------------------------------------------------------------------------
(* new RegExp(`\\b${name}\\b`, 'g') and String.prototype.replace *)

\* The pattern without its two \b.
WordBoundaryIgnored(s, p) == TRUE

\* The assertion \b at position p of s (between s[p] and s[p + 1]): exactly
\* one of the two neighbours is a word character; beyond the edges there is
\* none.
WordBoundary(s, p) ==
    LET before == p >= 1 /\ IsWordChar(s[p])
        after  == p < Len(s) /\ IsWordChar(s[p + 1])
    IN  before # after

\* One pattern character against one text character.  The name is put in the
\* pattern unescaped: "." matches any character but a line terminator.  The
\* names of the model hold no other pattern syntax.
PatternCharMatches(pc, ch) ==
    IF pc = "." THEN ch \notin LineTerminators ELSE pc = ch

\* The pattern \bname\b matches s at index i.
MatchesAt(s, name, i) ==
    /\ i + Len(name) - 1 <= Len(s)
    /\ \A k \in 1..Len(name) : PatternCharMatches(name[k], s[i + k - 1])
    /\ WordBoundary(s, i - 1)
    /\ WordBoundary(s, i + Len(name) - 1)

\* The replacement text for the match of length n at index i of s, from
\* index k of value on.  The pattern has no groups, so that "$$" gives "$",
\* "$&" the matched text, "$`" the text before the match and "$'" the text
\* after it; any other "$" stands for itself.
RECURSIVE GetSubstitution(_, _, _, _, _)
GetSubstitution(value, k, s, i, n) ==
    IF k > Len(value) THEN << >>
    ELSE IF /\ value[k] = "$"
            /\ k < Len(value)
            /\ value[k + 1] \in {"$", "&", "`", "'"}
    THEN (CASE value[k + 1] = "$" -> << "$" >>
            [] value[k + 1] = "&" -> SubSeq(s, i, i + n - 1)
            [] value[k + 1] = "`" -> SubSeq(s, 1, i - 1)
            [] value[k + 1] = "'" -> SubSeq(s, i + n, Len(s)))
         \o GetSubstitution(value, k + 2, s, i, n)
    ELSE << value[k] >> \o GetSubstitution(value, k + 1, s, i, n)

\* s.replace(regex, value) with the g flag, from index i on: the matches are
\* found left to right in s itself and do not overlap, and each is replaced
\* by the replacement text that value gives for it.
RECURSIVE ReplaceFrom(_, _, _, _)
ReplaceFrom(s, name, value, i) ==
    IF i > Len(s) THEN << >>
    ELSE IF name # << >> /\ MatchesAt(s, name, i)
    THEN GetSubstitution(value, 1, s, i, Len(name))
         \o ReplaceFrom(s, name, value, i + Len(name))
    ELSE << s[i] >> \o ReplaceFrom(s, name, value, i + 1)

StringReplace(s, name, value) == ReplaceFrom(s, name, value, 1)

\* The entries visited from the last to the first.
RECURSIVE ReplaceEntriesLastFirst(_, _)
ReplaceEntriesLastFirst(result, entries) ==
    IF entries = << >> THEN result
    ELSE StringReplace(ReplaceEntriesLastFirst(result, Tail(entries)),
                       Head(entries).name, Head(entries).value)

\* replaceNamedExpressions, with the entries still to visit.
RECURSIVE ReplaceEntries(_, _)
ReplaceEntries(result, entries) ==
    IF entries = << >> THEN result
    ELSE ReplaceEntries(
             StringReplace(result, Head(entries).name, Head(entries).value),
             Tail(entries))

\* The entries are applied until no entry changes the text any more (two
\* rounds suffice for the saved expressions of the model).
replaceNamedExpressionsRepeated(expr, saved) ==
    ReplaceEntries(ReplaceEntries(expr, saved), saved)

replaceNamedExpressions(expr, saved) == ReplaceEntries(expr, saved)

-----------------------------------------------------------------------------
(* Messages, oracle outcomes, inputs *)

\* The value of the error state: null, or a message with the text appended
\* to it.
ErrorMessage(msg, detail) == [msg |-> msg, detail |-> detail]

NoError == ErrorMessage("null", "")

NoFurtherReduction == ErrorMessage("No further reduction possible.", "")

BothRequired == ErrorMessage("Both name and expression are required", "")

\* The message without what was thrown.
ReduceErrorWithoutDetail(err) == ErrorMessage("Error: ", "")

ReduceError(err) == ErrorMessage("Error: ", err)

InitError(message) == ErrorMessage("Failed to initialize WASM module: ", message)

\* next_beta_reduction_wasm(text) returns a string or throws.
Returned(r) == [threw |-> FALSE, value |-> r, detail |-> ""]

Threw(err) == [threw |-> TRUE, value |-> << >>, detail |-> err]

\* What the oracle may throw, what init() may reject with, and the message
\* of the SyntaxError of JSON.parse.
OracleErrors == {"parse error"}

InitFailures == {"instantiate failed"}

JSONSyntaxError == "Unexpected end of JSON input"

\* '(λx.x) y'
DefaultExpression == <<"(", "λ", "x", ".", "x", ")", " ", "y">>

\* The texts the user types into the expression, name and value fields.
ExpressionInputs == { <<"a">> }

NameInputs == { <<" ">>, <<" ", "a">>, <<"b">>, <<"1">> }

ValueInputs == { <<"b">>, <<"c", " ">> }

\* The names a delete button can carry.
Names == { Trim(n) : n \in NameInputs } \ { << >> }

\* The strings the oracle returns, besides its input unchanged.
OracleTexts == { <<"b">> }

OracleOutcomes(text) ==
    { Returned(r) : r \in OracleTexts \cup {text} }
        \cup { Threw(e) : e \in OracleErrors }

\* The item found in localStorage when the page is opened.
InitialItems ==
    { NoItem, EmptyItem, MalformedItem,
      JSONStringify(<< Property(<<"a">>, <<"b">>) >>) }

\* The record of the handler that ran last: its name; its argument (the text
\* handed to the oracle, the name saved or deleted); the outcome of the oracle
\* call; whether the name saved or deleted was a key before; and, for a save
\* and for the delete of the name just saved, the saved expressions before
\* the save.
NoPrior == [known |-> FALSE, saved |-> << >>]

Prior(saved) == [known |-> TRUE, saved |-> saved]

Op(name, arg, outcome, existed, prior) ==
    [name |-> name, arg |-> arg, outcome |-> outcome, existed |-> existed,
     prior |-> prior]

Other(name) == Op(name, << >>, Returned(<< >>), FALSE, NoPrior)

-----------------------------------------------------------------------------
(* The state after construction *)

Init ==
    /\ expression = DefaultExpression
    /\ error = NoError
    /\ loading = TRUE
    /\ savedExpressions = << >>
    /\ newExpressionName = << >>
    /\ newExpressionValue = << >>
    /\ history = << >>
    /\ wasm = "pending"
    /\ storage \in InitialItems
    /\ lastOp = Other("mount")

-----------------------------------------------------------------------------
(* The persistence effect *)

\* The effect without its test for an empty object.
PersistEffectAlways(saved, item) == JSONStringify(saved)

\* useEffect(..., [savedExpressions]): runs after a render in which
\* savedExpressions is a new object; gives the item afterwards.
PersistEffect(saved, item) ==
    IF Len(ObjectKeys(saved)) > 0 THEN JSONStringify(saved) ELSE item


-----------------------------------------------------------------------------
(* The initialisation effect: init().then(...).catch(...) *)

\* init() resolved: the then-callback.  A SyntaxError of JSON.parse is thrown
\* after setLoading(false) and is handled by the catch-callback.
InitResolved ==
    /\ wasm = "pending"
    /\ wasm' = "ready"
    /\ loading' = FALSE
    /\ IF ~IsTruthy(storage)
       THEN UNCHANGED << savedExpressions, storage, error >>
       ELSE IF JSONParses(storage)
       THEN /\ savedExpressions' = JSONParse(storage)
            /\ storage' = PersistEffect(savedExpressions', storage)
            /\ UNCHANGED error
       ELSE /\ error' = InitError(JSONSyntaxError)
            /\ UNCHANGED << savedExpressions, storage >>
    /\ lastOp' = Other("init")
    /\ UNCHANGED << expression, newExpressionName, newExpressionValue, history >>

\* The catch-callback ends the loading state as the then-callback does.
InitRejectedEndsLoading(err) ==
    /\ wasm = "pending"
    /\ wasm' = "failed"
    /\ loading' = FALSE
    /\ error' = InitError(err)
    /\ lastOp' = Other("initFailed")
    /\ UNCHANGED << expression, savedExpressions, newExpressionName,
                    newExpressionValue, history, storage >>

\* init() rejected: the catch-callback; loading stays true.
InitRejected(err) ==
    /\ wasm = "pending"
    /\ wasm' = "failed"
    /\ error' = InitError(err)
    /\ lastOp' = Other("initFailed")
    /\ UNCHANGED << expression, loading, savedExpressions, newExpressionName,
                    newExpressionValue, history, storage >>

-----------------------------------------------------------------------------
(* The event handlers; the page with its controls is rendered once loading *)
(* is false.                                                               *)

\* onChange of the expression textarea
SetExpression(text) ==
    /\ ~loading
    /\ expression' = text
    /\ lastOp' = Other("setExpression")
    /\ UNCHANGED << error, loading, savedExpressions, newExpressionName,
                    newExpressionValue, history, wasm, storage >>

\* onChange of the name input
SetNewExpressionName(text) ==
    /\ ~loading
    /\ newExpressionName' = text
    /\ lastOp' = Other("setNewExpressionName")
    /\ UNCHANGED << expression, error, loading, savedExpressions,
                    newExpressionValue, history, wasm, storage >>

\* onChange of the value input
SetNewExpressionValue(text) ==
    /\ ~loading
    /\ newExpressionValue' = text
    /\ lastOp' = Other("setNewExpressionValue")
    /\ UNCHANGED << expression, error, loading, savedExpressions,
                    newExpressionName, history, wasm, storage >>

\* The comparison made with the text handed to the oracle.
NoProgressAgainstReplaced(expr, replaced, result) == result = replaced

\* The result compared with the expression and with the expanded text.
NoProgressEither(expr, replaced, result) == result = expr \/ result = replaced

\* The comparison left out.
NoProgressNever(expr, replaced, result) == FALSE

\* result === expression
NoProgress(expr, replaced, result) == result = expr

\* The step recorded with the expanded text as its origin.
ReductionStepFromReplaced(expr, replaced, result) ==
    [from |-> replaced, to |-> result]

\* { from: expression, to: result }
ReductionStep(expr, replaced, result) == [from |-> expr, to |-> result]

\* handleBetaReduce, with the outcome of next_beta_reduction_wasm, while the
\* history holds fewer than maxHistory steps.  The names of the model are
\* valid patterns, so that new RegExp does not throw.
HandleBetaReduceWithin(outcome, maxHistory) ==
    LET replacedExpression ==
            replaceNamedExpressions(expression, savedExpressions)
        result == outcome.value
    IN  /\ ~loading
        /\ outcome \in OracleOutcomes(replacedExpression)
        /\ IF outcome.threw
           THEN /\ error' = ReduceError(outcome.detail)
                /\ UNCHANGED << expression, history >>
           ELSE IF NoProgress(expression, replacedExpression, result)
           THEN /\ error' = NoFurtherReduction
                /\ UNCHANGED << expression, history >>
           ELSE /\ Len(history) < maxHistory
                /\ history' = Append(history,
                       ReductionStep(expression, replacedExpression, result))
                /\ expression' = result
                /\ error' = NoError
        /\ lastOp' = Op("handleBetaReduce", replacedExpression, outcome,
                        FALSE, NoPrior)
        /\ UNCHANGED << loading, savedExpressions, newExpressionName,
                        newExpressionValue, wasm, storage >>

HandleBetaReduce(outcome) == HandleBetaReduceWithin(outcome, MaxHistory)

\* The test without the trim.
IsBlankUntrimmed(text) == text = << >>

\* !text.trim()
IsBlank(text) == Trim(text) = << >>

\* The spread of the object of the first render, which is empty.
WithExpressionOnFirstRender(saved, name, value) ==
    DefineProperty(ObjectSpread(<< >>), name, value)

\* { ...savedExpressions, [name]: value }
WithExpression(saved, name, value) ==
    DefineProperty(ObjectSpread(saved), name, value)

\* saveExpression, and the persistence effect of the render that follows
SaveExpression ==
    /\ ~loading
    /\ IF IsBlank(newExpressionName) \/ IsBlank(newExpressionValue)
       THEN /\ error' = BothRequired
            /\ lastOp' = Op("saveExpression", Trim(newExpressionName),
                            Returned(<< >>), FALSE, NoPrior)
            /\ UNCHANGED << savedExpressions, newExpressionName,
                            newExpressionValue, storage >>
       ELSE /\ savedExpressions' =
                   WithExpression(savedExpressions, Trim(newExpressionName),
                                  Trim(newExpressionValue))
            /\ newExpressionName' = << >>
            /\ newExpressionValue' = << >>
            /\ error' = NoError
            /\ storage' = PersistEffect(savedExpressions', storage)
            /\ lastOp' = Op("saveExpression", Trim(newExpressionName),
                            Returned(<< >>),
                            HasOwnProperty(savedExpressions,
                                           Trim(newExpressionName)),
                            Prior(savedExpressions))
    /\ UNCHANGED << expression, loading, history, wasm >>

\* The copy is made and the state object itself is set again.
WithoutExpressionKeepsAll(saved, name) == ObjectSpread(saved)

\* The delete also drops the entry listed last.
WithoutExpressionAndLast(saved, name) ==
    LET rest == DeleteProperty(ObjectSpread(saved), name)
    IN  IF HasOwnProperty(saved, name) THEN rest
        ELSE SubSeq(rest, 1, Len(rest) - 1)

\* const newExpressions = { ...savedExpressions }; delete newExpressions[name]
WithoutExpression(saved, name) == DeleteProperty(ObjectSpread(saved), name)

\* deleteExpression(name), and the persistence effect of the render that
\* follows.  The function takes any name; the buttons of the page pass the
\* names that are saved.
DeleteExpression(name) ==
    /\ ~loading
    /\ savedExpressions' = WithoutExpression(savedExpressions, name)
    /\ storage' = PersistEffect(savedExpressions', storage)
    /\ lastOp' = Op("deleteExpression", name, Returned(<< >>),
                    HasOwnProperty(savedExpressions, name),
                    IF lastOp.name = "saveExpression" /\ lastOp.arg = name
                    THEN lastOp.prior ELSE NoPrior)
    /\ UNCHANGED << expression, error, loading, newExpressionName,
                    newExpressionValue, history, wasm >>

\* applyExpression(value), from the Use button of a saved expression
ApplyExpression(expr) ==
    /\ ~loading
    /\ expression' = expr
    /\ lastOp' = Other("applyExpression")
    /\ UNCHANGED << error, loading, savedExpressions, newExpressionName,
                    newExpressionValue, history, wasm, storage >>

\* The clear also puts the expression back to its default.
ClearHistoryResetsExpression ==
    /\ ~loading
    /\ history # << >>
    /\ history' = << >>
    /\ expression' = DefaultExpression
    /\ lastOp' = Other("clearHistory")
    /\ UNCHANGED << error, loading, savedExpressions,
                    newExpressionName, newExpressionValue, wasm, storage >>

\* clearHistory; its button is rendered while the history is not empty.
ClearHistory ==
    /\ ~loading
    /\ history # << >>
    /\ history' = << >>
    /\ lastOp' = Other("clearHistory")
    /\ UNCHANGED << expression, error, loading, savedExpressions,
                    newExpressionName, newExpressionValue, wasm, storage >>

-----------------------------------------------------------------------------

Next ==
    \/ InitResolved
    \/ \E err \in InitFailures : InitRejected(err)
    \/ \E text \in ExpressionInputs : SetExpression(text)
    \/ \E text \in NameInputs : SetNewExpressionName(text)
    \/ \E text \in ValueInputs : SetNewExpressionValue(text)
    \/ \E outcome \in OracleOutcomes(
              replaceNamedExpressions(expression, savedExpressions)) :
          HandleBetaReduce(outcome)
    \/ SaveExpression
    \/ \E name \in Names : DeleteExpression(name)
    \/ \E i \in 1..Len(savedExpressions) :
          ApplyExpression(savedExpressions[i].value)
    \/ ClearHistory

Spec == Init /\ [][Next]_vars

-----------------------------------------------------------------------------
(* The reduce step *)

ReduceRan == lastOp.name = "handleBetaReduce"

C2_NoProgressChangesNothing ==
    [][ ( /\ ReduceRan'
          /\ ~lastOp'.outcome.threw
          /\ lastOp'.outcome.value = expression )
        => ( /\ UNCHANGED << expression, history, savedExpressions >>
             /\ error' = NoFurtherReduction
             /\ error' # NoError ) ]_vars

\* The oracle was handed an expansion that differs from the expression and
\* returned the expression itself.
C2_Witness ==
    /\ ReduceRan
    /\ ~lastOp.outcome.threw
    /\ lastOp.outcome.value = expression
    /\ lastOp.arg # expression
    /\ error = NoFurtherReduction
    /\ history # << >>

\* C3: when the oracle throws, the reduce step changes neither the
\* expression, nor the history, nor the saved expressions, and the message
\* slot holds an error message that includes what was thrown.
C3_OracleFailureChangesNothing ==
    [][ ( ReduceRan' /\ lastOp'.outcome.threw )
        => ( /\ UNCHANGED << expression, history, savedExpressions, storage >>
             /\ error'.msg = "Error: "
             /\ error'.detail = lastOp'.outcome.detail
             /\ error'.detail \in OracleErrors ) ]_vars

\* The oracle threw on an expanded text, with a history and saved
\* expressions to keep.
C3_Witness ==
    /\ ReduceRan
    /\ lastOp.outcome.threw
    /\ error = ReduceError(lastOp.outcome.detail)
    /\ lastOp.arg # expression
    /\ history # << >>

-----------------------------------------------------------------------------
(* The saved expressions *)

SaveRan == lastOp.name = "saveExpression"

\* C4: a save with a name or a value that is empty after trimming changes
\* neither the saved expressions (entries and order), nor the expression,
\* nor the history, nor the stored item, and sets a message.
C4_BlankSaveRejected ==
    [][ ( /\ SaveRan'
          /\ \/ Trim(newExpressionName) = << >>
             \/ Trim(newExpressionValue) = << >> )
        => ( /\ UNCHANGED << savedExpressions, expression, history, storage >>
             /\ error' = BothRequired
             /\ error' # NoError ) ]_vars

\* A save was rejected for a name of white space only, with expressions
\* saved before.
C4_Witness ==
    /\ SaveRan
    /\ error = BothRequired
    /\ newExpressionName # << >>
    /\ Trim(newExpressionName) = << >>
    /\ Trim(newExpressionValue) # << >>
    /\ savedExpressions # << >>


DeleteRan == lastOp.name = "deleteExpression"

\* The entries of obj but the one named name, in their order.
Remaining(obj, name) ==
    LET keep == { i \in 1..Len(obj) : obj[i].name # name }
    IN  [n \in 1..Cardinality(keep) |->
            obj[CHOOSE i \in keep : Cardinality({ j \in keep : j <= i }) = n]]

\* C5: a valid save upserts the trimmed name with the trimmed value in
\* insertion order, whatever the characters of the name: a name that is
\* already a key keeps its position and only its value changes, and a new
\* name is placed after every existing entry.
C5_SaveKeepsInsertionOrder ==
    [][ ( /\ SaveRan'
          /\ Trim(newExpressionName) # << >>
          /\ Trim(newExpressionValue) # << >> )
        => LET name == Trim(newExpressionName)
               value == Trim(newExpressionValue)
           IN  IF \E i \in 1..Len(savedExpressions) :
                      savedExpressions[i].name = name
               THEN /\ Len(savedExpressions') = Len(savedExpressions)
                    /\ \A i \in 1..Len(savedExpressions) :
                          /\ savedExpressions'[i].name = savedExpressions[i].name
                          /\ savedExpressions'[i].value =
                                IF savedExpressions[i].name = name THEN value
                                ELSE savedExpressions[i].value
               ELSE savedExpressions' =
                        savedExpressions \o << [name |-> name, value |-> value] >>
      ]_vars

\* C6, as claimed: for every library and every valid name, a save of the
\* name followed by the delete of the name restores the saved expressions
\* to what they were before the save.
C6_SaveDeleteRestoresAlways ==
    (DeleteRan /\ lastOp.prior.known) => savedExpressions = lastOp.prior.saved

\* C6, amended: a save of a name that was no key before, followed by the
\* delete of the saved (trimmed) name, restores the saved expressions to what
\* they were before the save: the same names and values in the same order.
C6_SaveDeleteRestoresNewName ==
    ( /\ DeleteRan
      /\ lastOp.prior.known
      /\ \A i \in 1..Len(lastOp.prior.saved) :
            lastOp.prior.saved[i].name # lastOp.arg )
    => savedExpressions = lastOp.prior.saved

\* The array index "1" was saved into expressions that did not hold it, and
\* deleted again.
C6_Witness ==
    /\ DeleteRan
    /\ lastOp.prior.known
    /\ lastOp.arg = <<"1">>
    /\ lastOp.prior.saved # << >>
    /\ \A i \in 1..Len(lastOp.prior.saved) :
          lastOp.prior.saved[i].name # lastOp.arg
    /\ savedExpressions = lastOp.prior.saved

\* C7: a delete removes exactly the entry of the name and leaves the other
\* entries and their order as they are; the delete of a name that is no key
\* changes nothing and sets no message; a second delete of the name gives
\* what the first gave.
C7_DeleteRemovesExactlyTheName ==
    [][ DeleteRan'
        => ( /\ savedExpressions' = Remaining(savedExpressions, lastOp'.arg)
             /\ ( (\A i \in 1..Len(savedExpressions) :
                      savedExpressions[i].name # lastOp'.arg)
                  => savedExpressions' = savedExpressions )
             /\ error' = error
             /\ WithoutExpression(savedExpressions', lastOp'.arg)
                    = savedExpressions' ) ]_vars

\* A name that is no key was deleted from expressions that hold two others.
C7_Witness ==
    /\ DeleteRan
    /\ ~lastOp.existed
    /\ Len(savedExpressions) = 2

-----------------------------------------------------------------------------
(* The load at the start of the session *)

\* C9: after the initialisation has resolved, an item that is missing or
\* cannot be parsed has given empty saved expressions, no message is set, and
\* the session has left the loading state.
C9_UnusableItemLoadsSilently ==
    (lastOp.name = "init" /\ storage.kind \in {"null", "empty", "malformed"})
    => ( /\ savedExpressions = << >>
         /\ error = NoError
         /\ ~loading )

-----------------------------------------------------------------------------
(* The expansion of the saved names *)

Saved(names, values) ==
    [i \in 1..Len(names) |-> [name |-> names[i], value |-> values[i]]]

\* name matches the pattern \bname\b somewhere in text
Occurs(text, name) == \E i \in 1..Len(text) : MatchesAt(text, name, i)

-----------------------------------------------------------------------------
(* The message slot *)

\* The step is a save that saved, a delete, an apply, a reduce that
\* progressed, or a clear of the history.
SucceededStep ==
    \/ lastOp'.name = "saveExpression" /\ lastOp'.prior.known
    \/ lastOp'.name = "deleteExpression"
    \/ lastOp'.name = "applyExpression"
    \/ lastOp'.name = "handleBetaReduce" /\ history' # history
    \/ lastOp'.name = "clearHistory"

\* C12: a message set by an operation (validation error, no progress, oracle
\* failure) is no longer active after the next successful operation among
\* save, delete, apply, reduce and clear-history.
C12_MessageClearedByNextOperation ==
    [][ ( /\ error.msg \in {BothRequired.msg, NoFurtherReduction.msg, "Error: "}
          /\ SucceededStep )
        => error' = NoError ]_vars

-----------------------------------------------------------------------------
(* The history *)

C15_ExpansionAloneIsProgress ==
    [][ ( /\ ReduceRan'
          /\ lastOp'.arg = replaceNamedExpressions(expression, savedExpressions)
          /\ lastOp'.arg # expression
          /\ lastOp'.outcome = Returned(lastOp'.arg) )
        => ( /\ history' = Append(history, [from |-> expression,
                                            to |-> lastOp'.arg])
             /\ expression' = lastOp'.arg
             /\ error' = NoError ) ]_vars

\* The oracle returned the expanded text as it got it, and the step was
\* recorded from the text that names the saved expression.
C15_Witness ==
    /\ ReduceRan
    /\ lastOp.outcome = Returned(lastOp.arg)
    /\ expression = lastOp.arg
    /\ error = NoError
    /\ history # << >>
    /\ history[Len(history)].to = lastOp.arg
    /\ \E i \in 1..Len(savedExpressions) :
          /\ history[Len(history)].from = savedExpressions[i].name
          /\ lastOp.arg = savedExpressions[i].value

\* C17: every saved expression has a name and a value that are not empty and
\* carry no white space at either end (the session starts with no saved
\* expressions or loads an item whose entries are such).
C17_SavedEntriesTrimmed ==
    \A i \in 1..Len(savedExpressions) :
        /\ savedExpressions[i].name # << >>
        /\ savedExpressions[i].value # << >>
        /\ savedExpressions[i].name[1] \notin WhiteSpace
        /\ savedExpressions[i].name[Len(savedExpressions[i].name)]
               \notin WhiteSpace
        /\ savedExpressions[i].value[1] \notin WhiteSpace
        /\ savedExpressions[i].value[Len(savedExpressions[i].value)]
               \notin WhiteSpace

\* The name typed as " a" and the value typed as "c " were saved.
C17_Witness ==
    /\ SaveRan
    /\ lastOp.arg = <<"a">>
    /\ \E i \in 1..Len(savedExpressions) :
          savedExpressions[i] = [name |-> <<"a">>, value |-> <<"c">>]

\* C18: every entry of the history has a from that differs from its to.
C18_HistoryEntriesDiffer ==
    \A i \in 1..Len(history) : history[i].from # history[i].to

\* After a step was recorded, the oracle returned the expression itself and
\* nothing was recorded.
C18_Witness ==
    /\ ReduceRan
    /\ ~lastOp.outcome.threw
    /\ lastOp.outcome.value = expression
    /\ Len(history) = 1
    /\ history[1].to = expression

-----------------------------------------------------------------------------
(* The loading state *)

\* C19: while loading, no handler of the page runs; the step that ends the
\* loading state is the resolved initialisation, which reads the stored item
\* into the saved expressions in that same step; the stored item is written
\* only once loading has ended; after a failed initialisation loading never
\* ends.
C19_NothingRunsBeforeTheLoad ==
    [][ /\ loading => lastOp'.name \in {"init", "initFailed"}
        /\ (loading /\ ~loading')
            => ( /\ lastOp'.name = "init"
                 /\ wasm' = "ready"
                 /\ savedExpressions' =
                        IF storage.kind = "object"
                        THEN [i \in 1..Len(storage.members) |->
                                 [name |-> storage.members[i][1],
                                  value |-> storage.members[i][2]]]
                        ELSE << >> )
        /\ storage' # storage => (~loading /\ wasm = "ready")
        /\ wasm = "failed" => (loading /\ loading')
        /\ wasm' = "failed" => (loading' /\ savedExpressions' = << >>) ]_vars

\* The initialisation failed while an item was stored: the page stays in the
\* loading state.
C19_Witness ==
    /\ lastOp.name = "initFailed"
    /\ wasm = "failed"
    /\ loading
    /\ storage.kind = "object"
    /\ savedExpressions = << >>

-----------------------------------------------------------------------------
(* Sessions that expand and reduce: the page is opened with saved          *)
(* expressions in the stored item, expressions are typed and reduced.      *)

\* The saved expressions after the saves of the pairs << name, value >>.
RECURSIVE SavedBy(_)
SavedBy(saves) ==
    IF saves = << >> THEN << >>
    ELSE WithExpression(SavedBy(SubSeq(saves, 1, Len(saves) - 1)),
                        saves[Len(saves)][1], saves[Len(saves)][2])

\* The items an earlier session has stored.
ExpandItems ==
    { JSONStringify(SavedBy(saves)) : saves \in
        { << << <<"a">>, <<"c">> >> >>,
          << << <<"a">>, <<"b">> >>, << <<"b">>, <<"c">> >> >>,
          << << <<"b">>, <<"c">> >>, << <<"a">>, <<"b">> >> >>,
          << << <<"a">>, <<"c">> >>, << <<"b">>, <<"y">> >> >>,
          << << <<"a", " ", "b">>, <<"y">> >>, << <<"c">>, <<"b">> >> >>,
          << << <<"a">>, <<"$", "&", " ", "b">> >> >> } }

\* The expressions typed.
ExpandTexts ==
    { <<"a">>, <<"a", " ", "b">>, <<"a", "b">>, <<"a", " ", "a">>,
      <<"a", " ", "c">> }

ExpandInit ==
    /\ expression = DefaultExpression
    /\ error = NoError
    /\ loading = TRUE
    /\ savedExpressions = << >>
    /\ newExpressionName = << >>
    /\ newExpressionValue = << >>
    /\ history = << >>
    /\ wasm = "pending"
    /\ storage \in ExpandItems
    /\ lastOp = Other("mount")

ExpandNext ==
    \/ InitResolved
    \/ \E text \in ExpandTexts : SetExpression(text)
    \/ \E outcome \in OracleOutcomes(
              replaceNamedExpressions(expression, savedExpressions)) :
          HandleBetaReduceWithin(outcome, MaxSteps)

ExpandSpec == ExpandInit /\ [][ExpandNext]_vars

-----------------------------------------------------------------------------
(* Standalone tokens *)

\* name stands at index i of text, bounded on either side by a character
\* that is no identifier character or by the edge of the text.
StandaloneAt(text, name, i) ==
    LET last == i + Len(name) - 1
    IN  /\ last <= Len(text)
        /\ SubSeq(text, i, last) = name
        /\ (i = 1 \/ text[i - 1] \notin WordChars)
        /\ (last = Len(text) \/ text[last + 1] \notin WordChars)

Standalone(text, name) == \E i \in 1..Len(text) : StandaloneAt(text, name, i)

\* C11: with one saved expression, the expansion replaces every standalone
\* occurrence of its name and nothing else: a text without such an occurrence
\* is left as it is ("ab" stays "ab" for {a: "c"}), and where the value is
\* inserted as it is written (it holds no "$") every standalone occurrence
\* holds the value afterwards and every other character is kept ("a b" gives
\* "c b" and "a a" gives "c c").
C11_StandaloneOccurrencesReplaced ==
    [][ (ReduceRan' /\ Len(savedExpressions) = 1)
        => LET name == savedExpressions[1].name
               value == savedExpressions[1].value
               occ == { i \in 1..Len(expression) :
                          StandaloneAt(expression, name, i) }
               grow == Len(value) - Len(name)
               at(i) == i + grow * Cardinality({ j \in occ : j < i })
           IN  /\ occ = {} => lastOp'.arg = expression
               /\ (\A k \in 1..Len(value) : value[k] # "$")
                  => /\ Len(lastOp'.arg) =
                            Len(expression) + grow * Cardinality(occ)
                     /\ \A i \in occ :
                           SubSeq(lastOp'.arg, at(i), at(i) + Len(value) - 1)
                               = value
                     /\ \A i \in 1..Len(expression) :
                           (\A j \in occ : i < j \/ i >= j + Len(name))
                           => lastOp'.arg[at(i)] = expression[i]
               /\ (name = <<"a">> /\ value = <<"c">>
                   /\ expression = <<"a", " ", "b">>)
                     => lastOp'.arg = <<"c", " ", "b">>
               /\ expression = <<"a", "b">> => lastOp'.arg = <<"a", "b">>
      ]_vars

\* Both occurrences of the name in "a a" were replaced.
C11_Witness ==
    /\ ReduceRan
    /\ Len(savedExpressions) = 1
    /\ lastOp.outcome.threw
    /\ expression = <<"a", " ", "a">>
    /\ lastOp.arg = <<"c", " ", "c">>

\* The text after the first k entries have replaced their names in turn.
RECURSIVE FoldTo(_, _, _)
FoldTo(text, saved, k) ==
    IF k = 0 THEN text
    ELSE LET sofar == FoldTo(text, saved, k - 1)
         IN  IF \E i \in 1..Len(sofar) : MatchesAt(sofar, saved[k].name, i)
             THEN StringReplace(sofar, saved[k].name, saved[k].value)
             ELSE sofar

\* C14: the expansion is the left fold over the saved expressions in their
\* order, each entry replacing its name in the whole text reached so far: a
\* name brought in by the value of an earlier entry is replaced ({a: "b",
\* b: "c"} turns "a" into "c"), a name of an earlier entry brought in by a
\* later one is not ({b: "c", a: "b"} turns "a" into "b" and "a b" into
\* "b c"); an entry whose name does not occur changes nothing, and the saved
\* expressions stay as they are.
C14_ExpansionIsLeftFold ==
    [][ ReduceRan'
        => /\ lastOp'.arg =
                  FoldTo(expression, savedExpressions, Len(savedExpressions))
           /\ ( /\ expression = <<"a">>
                /\ ObjectKeys(savedExpressions) = << <<"a">>, <<"b">> >>
                /\ savedExpressions[1].value = <<"b">>
                /\ savedExpressions[2].value = <<"c">> )
              => lastOp'.arg = <<"c">>
           /\ ( /\ ObjectKeys(savedExpressions) = << <<"b">>, <<"a">> >>
                /\ savedExpressions[1].value = <<"c">>
                /\ savedExpressions[2].value = <<"b">> )
              => /\ expression = <<"a">> => lastOp'.arg = <<"b">>
                 /\ expression = <<"a", " ", "b">>
                       => lastOp'.arg = <<"b", " ", "c">>
           /\ (\A i \in 1..Len(savedExpressions) :
                   ~Standalone(expression, savedExpressions[i].name))
              => lastOp'.arg = expression
           /\ savedExpressions' = savedExpressions ]_vars

\* With {b: "c", a: "b"} the expression "a b" was expanded to "b c".
C14_Witness ==
    /\ ReduceRan
    /\ lastOp.outcome.threw
    /\ ObjectKeys(savedExpressions) = << <<"b">>, <<"a">> >>
    /\ expression = <<"a", " ", "b">>
    /\ lastOp.arg = <<"b", " ", "c">>

\* No value holds a saved name as a standalone token.
NoValueHoldsName(saved) ==
    \A i, j \in 1..Len(saved) : ~Standalone(saved[i].value, saved[j].name)

\* A reduce step whose oracle returns its input directly follows another.
IdentityReduceTwice ==
    /\ ReduceRan
    /\ lastOp.outcome = Returned(lastOp.arg)
    /\ ReduceRan'
    /\ lastOp'.outcome = Returned(lastOp'.arg)

\* C20, as claimed: with an oracle that returns its input and saved
\* expressions none of whose values holds a saved name, a reduce step that
\* directly follows a reduce step makes no progress.
C20_SecondReduceMakesNoProgress ==
    [][ (IdentityReduceTwice /\ NoValueHoldsName(savedExpressions))
        => ( /\ UNCHANGED << history, expression >>
             /\ error' = NoFurtherReduction ) ]_vars

-----------------------------------------------------------------------------
(* Sessions of operations one after the other: the page is opened with    *)
(* no stored item, and expressions are saved, deleted, applied and         *)
(* reduced, and the history is cleared, in any order.                      *)

\* The names and the value typed.
SerialNames == { <<" ", "a">>, <<"b">> }

SerialValues == { <<"c", " ">> }

SerialInit ==
    /\ expression = DefaultExpression
    /\ error = NoError
    /\ loading = TRUE
    /\ savedExpressions = << >>
    /\ newExpressionName = << >>
    /\ newExpressionValue = << >>
    /\ history = << >>
    /\ wasm = "pending"
    /\ storage = NoItem
    /\ lastOp = Other("mount")

SerialNext ==
    \/ InitResolved
    \/ \E text \in SerialNames : SetNewExpressionName(text)
    \/ \E text \in SerialValues : SetNewExpressionValue(text)
    \/ \E outcome \in OracleOutcomes(
              replaceNamedExpressions(expression, savedExpressions)) :
          HandleBetaReduceWithin(outcome, MaxSteps)
    \/ SaveExpression
    \/ \E name \in { Trim(text) : text \in SerialNames } :
          DeleteExpression(name)
    \/ \E i \in 1..Len(savedExpressions) :
          ApplyExpression(savedExpressions[i].value)
    \/ ClearHistory

SerialSpec == SerialInit /\ [][SerialNext]_vars

\* Every entry of saved but the one named name is an entry of after.
OthersKept(saved, after, name) ==
    \A i \in 1..Len(saved) :
        saved[i].name # name
        => \E j \in 1..Len(after) : after[j] = saved[i]

\* C16: every operation acts on the state the operation before it has left,
\* so that no update is lost.  A save that saves keeps every entry under
\* another name and leaves an entry under its name (a save of a new name
\* leaves one entry more), a delete keeps every entry under another name, a
\* reduce step that progresses keeps every entry of the history and adds one
\* entry, which starts from the expression the step before has left, an
\* apply and a clear change no saved expression, and no operation but the
\* reduce step and the clear changes the history.
C16_NoUpdateLost ==
    [][ /\ (lastOp'.name = "saveExpression" /\ lastOp'.prior.known)
           => /\ OthersKept(savedExpressions, savedExpressions', lastOp'.arg)
              /\ HasOwnProperty(savedExpressions', lastOp'.arg)
              /\ ~HasOwnProperty(savedExpressions, lastOp'.arg)
                    => Len(savedExpressions') = Len(savedExpressions) + 1
              /\ UNCHANGED << history, expression >>
        /\ lastOp'.name = "deleteExpression"
           => /\ OthersKept(savedExpressions, savedExpressions', lastOp'.arg)
              /\ UNCHANGED << history, expression >>
        /\ (lastOp'.name = "handleBetaReduce" /\ history' # history)
           => /\ Len(history') = Len(history) + 1
              /\ SubSeq(history', 1, Len(history)) = history
              /\ history'[Len(history')].from = expression
              /\ expression' = history'[Len(history')].to
              /\ UNCHANGED savedExpressions
        /\ lastOp'.name \in {"applyExpression", "clearHistory"}
           => UNCHANGED savedExpressions
        /\ lastOp'.name = "applyExpression" => UNCHANGED history
      ]_vars

\* Two names were saved one after the other and two reduce steps progressed
\* one after the other: both entries are saved, and the history holds both
\* steps, the second from where the first has led.
C16_Witness ==
    /\ ReduceRan
    /\ ObjectKeys(savedExpressions) = << <<"b">>, <<"a">> >>
    /\ Len(history) = 2
    /\ history[1].from = DefaultExpression
    /\ history[2].from = history[1].to
    /\ history[2].to = expression

=============================================================================
